---- MODULE Spec2Model ----
(***************************************************************************)
(* Gemini File Search Studio (src/app.py): one Streamlit session.          *)
(*                                                                         *)
(* A script run executes app.py from top to bottom: the sidebar validates  *)
(* the API key, a gate stops the run without a validated client, then the  *)
(* three tabs run in order.  Every remote call is one step of the model;   *)
(* its outcome (a value or a fault) is chosen by the remote service.       *)
(* st.rerun() and st.stop() end the run; st.rerun() starts the next one.   *)
(***************************************************************************)
EXTENDS Integers, Sequences, FiniteSets, TLC

\* ------------------------------------------------------------------ bounds
MaxTimeout == 5
MaxPastDeadline == 3
MaxTurns == 1
MaxRows == 3

\* --------------------------------------------------------------- constants
None == "None"
Keys == {"k1", "k2"}
StoreNames == {"fileSearchStores/a", "fileSearchStores/b"}
FileRefs == {"files/f1"}
NoFile == [name |-> "", size |-> 0]
FileSizesMB == {1, 26}
Files == {[name |-> "q1.pdf", size |-> s] : s \in FileSizesMB}
PollInterval == 2
CheckCosts == {0, 1}
Timeouts == (0 - MaxPastDeadline)..MaxTimeout
PollOutcomes == {"PROCESSING", "ACTIVE", "FAILED", "fault"}
Buttons == {"none", "refresh", "delete", "create", "upload", "refresh_files", "clear"}
Ops == {"models_list", "list_stores", "create_store", "delete_store", "list_files",
        "upload", "import_file", "files_get", "generate"}
Wrappers == {"list_stores", "create_store", "delete_store", "list_files", "generate"}
Listings == {<<>>} \cup {<<s>> : s \in StoreNames}
            \cup {<<p[1], p[2]>> : p \in {q \in StoreNames \X StoreNames : q[1] # q[2]}}
ErrorText == "Error"
AnswerText == "answer"
CitationLists == {<<>>, <<"q1.pdf">>}

\* Texts are sequences of characters.
Space == " "
KeyTexts == {<<>>, <<"a">>, <<Space, "a">>, <<"b">>}
ValueTexts == {<<>>, <<Space>>, <<"x">>, <<"y", Space>>}
EmptyRow == [key |-> <<>>, value |-> <<>>]
EmptyDict == [k \in {} |-> None]
NoChunking == [isNone |-> TRUE, dict |-> EmptyDict]
NoConfig == [isNone |-> TRUE, dict |-> EmptyDict]
MaxTokensChoices == {100, 200}
OverlapChoices == {0, 20}
Policy(m, o) ==
  [isNone |-> FALSE,
   dict |-> [white_space_config |->
               [max_tokens_per_chunk |-> m, max_overlap_tokens |-> o]]]
WidgetPolicies == {Policy(m, o) : m \in MaxTokensChoices, o \in OverlapChoices}
ChunkingArgs == {NoChunking, [isNone |-> FALSE, dict |-> EmptyDict], Policy(200, 20)}
TypedValues == {[type |-> "str", val |-> <<"f">>],
                [type |-> "int", val |-> <<"2", "0", "2", "4">>],
                [type |-> "float", val |-> <<"0", ".", "5">>],
                [type |-> "NoneType", val |-> <<>>]}
CallerKeys == {<<"d">>, <<"y">>}
CallerDicts ==
  {<<>>}
  \cup {<<[key |-> k, value |-> v]>> : k \in CallerKeys, v \in TypedValues}
  \cup {<<[key |-> p[1], value |-> v], [key |-> p[2], value |-> w]>> :
          p \in {q \in CallerKeys \X CallerKeys : q[1] # q[2]},
          v \in TypedValues, w \in TypedValues}

VARIABLES
  client, api_key_valid, selected_store, stores_list, chat_history,
  pc, api_key, clicked, new_store_name, uploaded_file, user_query,
  file, result, final_status, timeout, elapsed,
  calls, invoked, ret, fault, obs, checkTime, stage,
  metadata_rows, metadata, chunking_config, import_config, tpc

session == <<client, api_key_valid, selected_store, stores_list, chat_history>>
widgets == <<api_key, clicked, new_store_name, uploaded_file, user_query>>
ingest == <<file, result, final_status, timeout, elapsed, obs, checkTime, stage>>
audit == <<calls, invoked, ret, fault>>
tags == <<metadata_rows, metadata, chunking_config, import_config, tpc>>
vars == <<session, pc, widgets, ingest, audit, tags>>

NoCalls == [o \in Ops |-> 0]
\* The last wrapper's return value, kept under the wrapper's name: each wrapper
\* returns values of one type (a list, a name or None, a flag, a response).
NoRet ==
  [op |-> None, list_stores |-> <<>>, create_store |-> None,
   delete_store |-> FALSE, list_files |-> <<>>,
   generate |-> [text |-> "", citations |-> <<>>]]
Called(o) == [calls EXCEPT ![o] = @ + 1]
Invoked(o) == [invoked EXCEPT ![o] = @ + 1]
FreshIngest ==
  /\ file' = None
  /\ result' = None
  /\ final_status' = None
  /\ timeout' = 0
  /\ elapsed' = 0
  /\ obs' = <<>>
  /\ checkTime' = 0
  /\ stage' = "NotStarted"
FreshAudit ==
  /\ calls' = NoCalls
  /\ invoked' = NoCalls
  /\ ret' = NoRet
  /\ fault' = None

\* init_session_state
Init ==
  /\ client = None
  /\ api_key_valid = FALSE
  /\ selected_store = None
  /\ stores_list = <<>>
  /\ chat_history = <<>>
  /\ pc = "idle"
  /\ api_key = ""
  /\ clicked = "none"
  /\ new_store_name = ""
  /\ uploaded_file = NoFile
  /\ user_query = None
  /\ file = None
  /\ result = None
  /\ final_status = None
  /\ timeout = 0
  /\ elapsed = 0
  /\ obs = <<>>
  /\ checkTime = 0
  /\ stage = "NotStarted"
  /\ calls = NoCalls
  /\ invoked = NoCalls
  /\ ret = NoRet
  /\ fault = None
  /\ metadata_rows = <<EmptyRow>>
  /\ metadata = <<>>
  /\ chunking_config = NoChunking
  /\ import_config = NoConfig
  /\ tpc = "draft"

\* ----------------------------------------------------- script run control
\* A widget event starts a script run with the widget values of that event.
\* The value of the file uploader is read only under the Upload File button
\* (lines 654-664), so runs of other events are modelled without a file.
UserEvent ==
  /\ UNCHANGED tags
  /\ pc = "idle"
  /\ pc' = "sidebar"
  /\ api_key' \in {""} \cup Keys
  /\ clicked' \in Buttons
  /\ new_store_name' \in (IF clicked' = "create" THEN {"", "Reports"} ELSE {""})
  /\ uploaded_file' \in (IF clicked' = "upload" THEN {NoFile} \cup Files ELSE {NoFile})
  /\ user_query' \in (IF clicked' = "none" /\ Len(chat_history) < 2 * MaxTurns
                       THEN {None, "q"} ELSE {None})
  /\ FreshIngest
  /\ FreshAudit
  /\ UNCHANGED session

\* st.rerun(): the next run keeps the text and file widgets; buttons and the
\* chat input are back to their resting values.
StRerun ==
  /\ pc' = "sidebar"
  /\ clicked' = "none"
  /\ user_query' = None
  /\ UNCHANGED <<api_key, new_store_name, uploaded_file>>
  /\ FreshIngest

\* st.stop(): the script run ends and the widgets rest until the next event.
Stop ==
  /\ pc' = "idle"
  /\ api_key' = ""
  /\ clicked' = "none"
  /\ new_store_name' = ""
  /\ uploaded_file' = NoFile
  /\ user_query' = None

\* The end of a run past the gate: its locals are gone.
EndRun ==
  /\ Stop
  /\ FreshIngest
  /\ FreshAudit

\* ------------------------------------------------------ sidebar and gate
\* initialize_client: the key validates when genai.Client and models.list
\* both return; any fault clears the client.
initialize_client(ok, key) ==
  IF ok THEN [client |-> key, api_key_valid |-> TRUE]
        ELSE [client |-> None, api_key_valid |-> FALSE]

\* every non-empty key validated on every run
NeedsValidation_always(valid, cl) == TRUE

\* line 419: the key is validated only while no client has validated.
NeedsValidation(valid, cl) == ~valid \/ cl = None

\* the gate left out
GateOpen_always(valid, cl) == TRUE

\* lines 479-481: the run goes on past the gate only with a validated client.
GateOpen(valid, cl) == valid /\ cl # None

Gate ==
  IF GateOpen(api_key_valid', client')
    THEN pc' = "t1_refresh" /\ UNCHANGED widgets
    ELSE Stop

SidebarValidate ==
  /\ UNCHANGED tags
  /\ pc = "sidebar"
  /\ api_key # ""
  /\ NeedsValidation(api_key_valid, client)
  /\ \E ok \in BOOLEAN :
       /\ client' = initialize_client(ok, api_key).client
       /\ api_key_valid' = initialize_client(ok, api_key).api_key_valid
       /\ fault' = IF ok THEN None ELSE "models_list"
  /\ calls' = Called("models_list")
  /\ Gate
  /\ UNCHANGED <<selected_store, stores_list, chat_history, ingest, invoked, ret>>

SidebarKeep ==
  /\ UNCHANGED tags
  /\ pc = "sidebar"
  /\ api_key # ""
  /\ ~NeedsValidation(api_key_valid, client)
  /\ UNCHANGED <<session, ingest, audit>>
  /\ Gate

SidebarReset ==
  /\ UNCHANGED tags
  /\ pc = "sidebar"
  /\ api_key = ""
  /\ api_key_valid' = FALSE
  /\ client' = None
  /\ Gate
  /\ UNCHANGED <<selected_store, stores_list, chat_history, ingest, audit>>

\* ------------------------------------------------- remote-service wrappers
\* generate_with_file_search without its except clause
Handled_not_generate(o) == o # "generate"

\* Each wrapper issues its request inside try/except and returns a sentinel
\* when the request faults.  Handled(o) is the except clause of wrapper o.
Handled(o) == TRUE

list_stores_ret(ok, listing) == IF ok THEN listing ELSE <<>>
\* a fresh listing appended to the cached one
list_stores_state_merges(ok, listing, old) == IF ok THEN old \o listing ELSE old

\* line 171 is skipped when the request faults
list_stores_state(ok, listing, old) == IF ok THEN listing ELSE old
create_store_ret(ok, store) == IF ok THEN store ELSE None
delete_store_ret(ok) == ok
list_files_ret(ok, files) == IF ok THEN files ELSE <<>>
generate_ret(ok, text, citations) ==
  IF ok THEN [text |-> text, citations |-> citations]
        ELSE [text |-> ErrorText, citations |-> <<>>]

\* One wrapper call: one request, then the return value or, on a fault that
\* the wrapper does not handle, the end of the script with a traceback.
Request(o, ok, value) ==
  /\ calls' = Called(o)
  /\ invoked' = Invoked(o)
  /\ fault' = IF ok THEN None ELSE o
  /\ ret' = [NoRet EXCEPT !.op = o, ![o] = value]

Crash ==
  /\ pc' = "crashed"
  /\ UNCHANGED widgets

list_stores(next) ==
  \E ok \in BOOLEAN, listing \in Listings :
    /\ Request("list_stores", ok, list_stores_ret(ok, listing))
    /\ stores_list' = list_stores_state(ok, listing, stores_list)
    /\ IF ok \/ Handled("list_stores")
         THEN pc' = next /\ UNCHANGED widgets
         ELSE Crash
    /\ UNCHANGED <<client, api_key_valid, selected_store, chat_history, ingest>>

\* ------------------------------------------------------ tab 1: stores
\* lines 499-501
RefreshStores ==
  /\ UNCHANGED tags
  /\ pc = "t1_refresh"
  /\ clicked = "refresh"
  /\ list_stores("t1_load")

NoRefresh ==
  /\ UNCHANGED tags
  /\ pc = "t1_refresh"
  /\ clicked # "refresh"
  /\ pc' = "t1_load"
  /\ UNCHANGED <<session, widgets, ingest, audit>>

\* lines 504-506
LoadStores ==
  /\ UNCHANGED tags
  /\ pc = "t1_load"
  /\ stores_list = <<>>
  /\ list_stores("t1_select")

StoresLoaded ==
  /\ UNCHANGED tags
  /\ pc = "t1_load"
  /\ stores_list # <<>>
  /\ pc' = "t1_select"
  /\ UNCHANGED <<session, widgets, ingest, audit>>

\* lines 510-525: the selectbox always has one of the listed stores selected.
SelectStore ==
  /\ UNCHANGED tags
  /\ pc = "t1_select"
  /\ stores_list # <<>>
  /\ \E i \in 1..Len(stores_list) : selected_store' = stores_list[i]
  /\ pc' = IF clicked = "delete" THEN "t1_delete" ELSE "t1_create"
  /\ UNCHANGED <<client, api_key_valid, stores_list, chat_history, widgets, ingest, audit>>

\* line 555
NoStores ==
  /\ UNCHANGED tags
  /\ pc = "t1_select"
  /\ stores_list = <<>>
  /\ pc' = "t1_create"
  /\ UNCHANGED <<session, widgets, ingest, audit>>

\* the selection left in place after a successful delete
after_delete_keeps_selection(sel, lst) == [selected_store |-> sel, stores_list |-> <<>>]

\* lines 551-552: the session state after delete_store returned True
after_delete(sel, lst) == [selected_store |-> None, stores_list |-> <<>>]

\* lines 546-553
DeleteStore ==
  /\ UNCHANGED tags
  /\ pc = "t1_delete"
  /\ \E ok \in BOOLEAN :
       /\ Request("delete_store", ok, delete_store_ret(ok))
       /\ IF ~ok /\ ~Handled("delete_store")
            THEN Crash /\ UNCHANGED <<stores_list, selected_store, ingest>>
            ELSE IF delete_store_ret(ok)
              THEN /\ stores_list' = after_delete(selected_store, stores_list).stores_list
                   /\ selected_store' = after_delete(selected_store, stores_list).selected_store
                   /\ StRerun
              ELSE /\ pc' = "t1_create"
                   /\ UNCHANGED <<stores_list, selected_store, widgets, ingest>>
  /\ UNCHANGED <<client, api_key_valid, chat_history>>

\* lines 566-576
CreateStore ==
  /\ UNCHANGED tags
  /\ pc = "t1_create"
  /\ clicked = "create"
  /\ new_store_name # ""
  /\ \E ok \in BOOLEAN, store \in StoreNames :
       /\ Request("create_store", ok, create_store_ret(ok, store))
       /\ IF ~ok /\ ~Handled("create_store")
            THEN Crash /\ UNCHANGED <<stores_list, ingest>>
            ELSE IF create_store_ret(ok, store) # None
              THEN stores_list' = <<>> /\ StRerun
              ELSE /\ pc' = "t2_gate"
                   /\ UNCHANGED <<stores_list, widgets, ingest>>
  /\ UNCHANGED <<client, api_key_valid, selected_store, chat_history>>

NoCreate ==
  /\ UNCHANGED tags
  /\ pc = "t1_create"
  /\ clicked # "create" \/ new_store_name = ""
  /\ pc' = "t2_gate"
  /\ UNCHANGED <<session, widgets, ingest, audit>>

\* ------------------------------------------------------- tab 2: files
\* lines 585-587
NoStoreSelected ==
  /\ UNCHANGED tags
  /\ pc = "t2_gate"
  /\ selected_store = None
  /\ EndRun
  /\ UNCHANGED session

\* lines 654-664: the upload button exists only while a file is chosen.
UploadClicked(f, button) == f # NoFile /\ button = "upload"

StartUpload ==
  /\ UNCHANGED tags
  /\ pc = "t2_gate"
  /\ selected_store # None
  /\ UploadClicked(uploaded_file, clicked)
  /\ pc' = "upload"
  /\ stage' = "Uploading"
  /\ UNCHANGED <<session, widgets, audit, file, result, final_status, timeout,
                 elapsed, obs, checkTime>>

NoUpload ==
  /\ UNCHANGED tags
  /\ pc = "t2_gate"
  /\ selected_store # None
  /\ ~UploadClicked(uploaded_file, clicked)
  /\ pc' = "t2_files"
  /\ UNCHANGED <<session, widgets, ingest, audit>>

\* the upload fault swallowed, the function going on to import_file
after_upload_always_links(ok) == "link"

\* upload_file_to_store, lines 268-271 and the except clause: where the
\* function goes after files.upload returned (ok) or raised.
after_upload(ok) == IF ok THEN "link" ELSE "t2_files"

\* the file object returned whether or not import_file raised
upload_result_keeps_file(ok, f) == f

\* lines 293-302: the value upload_file_to_store returns after import_file
\* returned (ok) or raised.
upload_result(ok, f) == IF ok THEN f ELSE None

\* the handler polling without looking at the result
after_link_always_polls(res) == "poll"

\* line 666: poll_file_status is called only with a result.
after_link(res) == IF res # None THEN "poll" ELSE "t2_files"

FilesUpload ==
  /\ UNCHANGED tags
  /\ pc = "upload"
  /\ \E ok \in BOOLEAN, f \in FileRefs :
       /\ fault' = IF ok THEN None ELSE "upload"
       /\ file' = IF ok THEN f ELSE None
       /\ stage' = IF ok THEN "Linking" ELSE "UploadFailed"
       /\ pc' = after_upload(ok)
  /\ calls' = Called("upload")
  /\ result' = None
  /\ UNCHANGED <<session, widgets, invoked, ret, final_status, timeout, elapsed,
                 obs, checkTime>>

ImportFile ==
  /\ UNCHANGED tags
  /\ pc = "link"
  /\ \E ok \in BOOLEAN :
       /\ fault' = IF ok THEN None ELSE "import_file"
       /\ stage' = IF ok THEN "Polling" ELSE "LinkFailed"
       /\ result' = upload_result(ok, file)
  /\ calls' = Called("import_file")
  /\ pc' = after_link(result')
  /\ timeout' \in (IF pc' = "poll" THEN Timeouts ELSE {0})
  /\ elapsed' = 0
  /\ UNCHANGED <<session, widgets, invoked, ret, file, final_status, obs, checkTime>>

\* the deadline itself still inside the loop
PollContinue_inclusive(el, to) == el <= to

\* the loop giving up one interval before the deadline
PollContinue_early(el, to) == el + PollInterval < to

\* poll_file_status, line 321
PollContinue(el, to) == el < to

\* a fault of files.get taken as one more non-terminal observation
poll_observe_fault_sleeps(o) ==
  CASE o = "ACTIVE" -> "ACTIVE"
    [] o = "FAILED" -> "FAILED"
    [] OTHER -> "sleep"

\* FAILED not recognised as terminal
poll_observe_failed_sleeps(o) ==
  CASE o = "ACTIVE" -> "ACTIVE"
    [] o = "fault" -> "ERROR"
    [] OTHER -> "sleep"

\* lines 324-331: what one status check makes of its outcome.
poll_observe(o) ==
  CASE o = "ACTIVE" -> "ACTIVE"
    [] o = "FAILED" -> "FAILED"
    [] o = "fault" -> "ERROR"
    [] OTHER -> "sleep"

\* One iteration of the loop: files.get, which takes cost seconds, then
\* either a return or time.sleep(2).
PollCheck ==
  /\ UNCHANGED tags
  /\ pc = "poll"
  /\ PollContinue(elapsed, timeout)
  /\ \E o \in PollOutcomes, cost \in CheckCosts :
       /\ fault' = IF o = "fault" THEN "files_get" ELSE None
       /\ obs' = Append(obs, o)
       /\ checkTime' = checkTime + cost
       /\ IF poll_observe(o) = "sleep"
            THEN /\ elapsed' = elapsed + cost + PollInterval
                 /\ UNCHANGED <<pc, final_status, stage>>
            ELSE /\ elapsed' = elapsed + cost
                 /\ final_status' = poll_observe(o)
                 /\ stage' = poll_observe(o)
                 /\ pc' = "status"
  /\ calls' = Called("files_get")
  /\ UNCHANGED <<session, widgets, invoked, ret, file, result, timeout>>

\* line 333
PollTimeout ==
  /\ UNCHANGED tags
  /\ pc = "poll"
  /\ ~PollContinue(elapsed, timeout)
  /\ final_status' = "TIMEOUT"
  /\ stage' = "TIMEOUT"
  /\ pc' = "status"
  /\ UNCHANGED <<session, widgets, audit, file, result, timeout, elapsed, obs, checkTime>>

\* lines 672-677: poll_file_status has returned and its locals are gone; the
\* handler shows the status.
ShowStatus ==
  /\ UNCHANGED tags
  /\ pc = "status"
  /\ pc' = "t2_files"
  /\ timeout' = 0
  /\ elapsed' = 0
  /\ obs' = <<>>
  /\ checkTime' = 0
  /\ UNCHANGED <<session, widgets, audit, file, result, final_status, stage>>

\* lines 684-685
RefreshFiles ==
  /\ UNCHANGED tags
  /\ pc = "t2_files"
  /\ clicked = "refresh_files"
  /\ StRerun
  /\ UNCHANGED <<session, audit>>

\* line 687
ListFiles ==
  /\ UNCHANGED tags
  /\ pc = "t2_files"
  /\ clicked # "refresh_files"
  /\ \E ok \in BOOLEAN, files \in {<<>>, <<"files/f1">>} :
       /\ Request("list_files", ok, list_files_ret(ok, files))
       /\ IF ok \/ Handled("list_files")
            THEN pc' = "t3_chat" /\ UNCHANGED widgets
            ELSE Crash
  /\ UNCHANGED <<session, ingest>>

\* -------------------------------------------------------- tab 3: chat
\* the transcript replaced by the new turn
append_turn_replaces(history, turn) == <<turn>>

\* lines 773 and 808: chat_history.append
append_turn(history, turn) == Append(history, turn)

\* lines 739-741
ClearChat ==
  /\ UNCHANGED tags
  /\ pc = "t3_chat"
  /\ selected_store # None
  /\ clicked = "clear"
  /\ chat_history' = <<>>
  /\ StRerun
  /\ UNCHANGED <<client, api_key_valid, selected_store, stores_list, audit>>

\* lines 771-776
AskQuery ==
  /\ UNCHANGED tags
  /\ pc = "t3_chat"
  /\ selected_store # None
  /\ clicked # "clear"
  /\ user_query # None
  /\ chat_history' = append_turn(chat_history,
                            [role |-> "user", content |-> user_query, citations |-> <<>>])
  /\ pc' = "generate"
  /\ UNCHANGED <<client, api_key_valid, selected_store, stores_list, widgets, ingest, audit>>

\* lines 785-814
Generate ==
  /\ UNCHANGED tags
  /\ pc = "generate"
  /\ \E ok \in BOOLEAN, citations \in CitationLists :
       /\ Request("generate", ok, generate_ret(ok, AnswerText, citations))
       /\ IF ok \/ Handled("generate")
            THEN /\ chat_history' = append_turn(chat_history,
                        [role |-> "assistant",
                         content |-> generate_ret(ok, AnswerText, citations).text,
                         citations |-> generate_ret(ok, AnswerText, citations).citations])
                 /\ StRerun
            ELSE Crash /\ UNCHANGED <<chat_history, ingest>>
  /\ UNCHANGED <<client, api_key_valid, selected_store, stores_list>>

\* lines 725-727 and the end of the script
EndOfScript ==
  /\ UNCHANGED tags
  /\ pc = "t3_chat"
  /\ selected_store = None \/ (clicked # "clear" /\ user_query = None)
  /\ EndRun
  /\ UNCHANGED session

Next ==
  \/ UserEvent
  \/ SidebarValidate
  \/ SidebarKeep
  \/ SidebarReset
  \/ RefreshStores
  \/ NoRefresh
  \/ LoadStores
  \/ StoresLoaded
  \/ SelectStore
  \/ NoStores
  \/ DeleteStore
  \/ CreateStore
  \/ NoCreate
  \/ NoStoreSelected
  \/ StartUpload
  \/ NoUpload
  \/ FilesUpload
  \/ ImportFile
  \/ PollCheck
  \/ PollTimeout
  \/ ShowStatus
  \/ RefreshFiles
  \/ ListFiles
  \/ ClearChat
  \/ AskQuery
  \/ Generate
  \/ EndOfScript

Spec == Init /\ [][Next]_vars

\* The script is one thread that keeps running: a status check that can be
\* made is made and returns, and the loop's exit is taken once the deadline
\* has passed.
\* Every PollCheck step appends to obs and every PollTimeout step changes pc.
loop == <<pc, obs>>
SpecFair == Spec /\ WF_loop(PollCheck) /\ WF_loop(PollTimeout)

TypeOK ==
  /\ client \in {None} \cup Keys
  /\ api_key_valid \in BOOLEAN
  /\ selected_store \in {None} \cup StoreNames
  /\ stores_list \in Listings
  /\ Len(chat_history) <= 2 * MaxTurns
  /\ pc # "crashed"

\* ============================================== tags and import config
\* str.strip()
RECURSIVE lstrip(_)
lstrip(s) == IF s # <<>> /\ Head(s) = Space THEN lstrip(Tail(s)) ELSE s

RECURSIVE rstrip(_)
rstrip(s) ==
  IF s # <<>> /\ s[Len(s)] = Space THEN rstrip(SubSeq(s, 1, Len(s) - 1)) ELSE s

strip(s) == rstrip(lstrip(s))

\* A dict is the sequence of its items in insertion order.
dict_has(d, k) == \E i \in 1..Len(d) : d[i].key = k

\* the first value entered for a key kept
dict_set_keeps_first(d, k, v) ==
  IF dict_has(d, k) THEN d ELSE Append(d, [key |-> k, value |-> v])

\* d[k] = v: a key that is present keeps its place and takes the new value
dict_set(d, k, v) ==
  IF dict_has(d, k)
    THEN [i \in 1..Len(d) |-> IF d[i].key = k THEN [key |-> k, value |-> v] ELSE d[i]]
    ELSE Append(d, [key |-> k, value |-> v])

\* line 658
row_included(row) == strip(row.key) # <<>> /\ strip(row.value) # <<>>

\* lines 656-659
RECURSIVE build_from(_, _)
build_from(rows, d) ==
  IF rows = <<>> THEN d
  ELSE build_from(Tail(rows),
         IF row_included(Head(rows))
           THEN dict_set(d, strip(Head(rows).key),
                         [type |-> "str", val |-> strip(Head(rows).value)])
           ELSE d)

build_metadata(rows) == build_from(rows, <<>>)

\* line 282: isinstance(v, (int, float))
is_number(v) == v.type \in {"int", "float"}

\* str(v)
py_str(v) ==
  CASE v.type = "str" -> v.val
    [] v.type = "NoneType" -> <<"N", "o", "n", "e">>
    [] OTHER -> v.val

\* every value sent as a string
tag_entry_always_string(k, v) == [key |-> k, string_value |-> py_str(v)]

\* lines 282-285
tag_entry(k, v) ==
  IF is_number(v) THEN [key |-> k, numeric_value |-> v.val]
                  ELSE [key |-> k, string_value |-> py_str(v)]

\* lines 279-286
custom_metadata(md) == [i \in 1..Len(md) |-> tag_entry(md[i].key, md[i].value)]

\* truth value of the chunking_config argument (line 288)
chunking_given(ch) == ~ch.isNone /\ DOMAIN ch.dict # {}

\* lines 274-289
make_import_config(md, ch) ==
  (IF md # <<>> THEN "custom_metadata" :> custom_metadata(md) ELSE EmptyDict)
  @@ (IF chunking_given(ch) THEN "chunking_config" :> ch.dict ELSE EmptyDict)

\* the dict passed as it is, empty or not
config_arg_always_dict(cfg) == [isNone |-> FALSE, dict |-> cfg]

\* line 296: config=import_config if import_config else None
config_arg(cfg) ==
  IF DOMAIN cfg # {} THEN [isNone |-> FALSE, dict |-> cfg] ELSE NoConfig

\* Tab 2 is reached with a validated client and a selected store.  A run
\* started by a tag widget touches nothing but metadata_rows, so it is one
\* step here.
InTab2 == pc = "idle" /\ api_key_valid /\ client # None /\ selected_store # None
AppUnchanged == UNCHANGED <<session, pc, widgets, ingest, audit>>

\* lines 615-621
EditKey ==
  /\ InTab2 /\ tpc = "draft"
  /\ \E i \in 1..Len(metadata_rows), k \in KeyTexts :
       metadata_rows' = [metadata_rows EXCEPT ![i].key = k]
  /\ UNCHANGED <<metadata, chunking_config, import_config, tpc>>
  /\ AppUnchanged

\* lines 623-629
EditValue ==
  /\ InTab2 /\ tpc = "draft"
  /\ \E i \in 1..Len(metadata_rows), v \in ValueTexts :
       metadata_rows' = [metadata_rows EXCEPT ![i].value = v]
  /\ UNCHANGED <<metadata, chunking_config, import_config, tpc>>
  /\ AppUnchanged

\* lines 631-634
DeleteRow ==
  /\ InTab2 /\ tpc = "draft"
  /\ Len(metadata_rows) > 1
  /\ \E i \in 1..Len(metadata_rows) :
       metadata_rows' = [j \in 1..(Len(metadata_rows) - 1) |->
                           IF j < i THEN metadata_rows[j] ELSE metadata_rows[j + 1]]
  /\ UNCHANGED <<metadata, chunking_config, import_config, tpc>>
  /\ AppUnchanged

\* lines 636-638
AddRow ==
  /\ InTab2 /\ tpc = "draft"
  /\ Len(metadata_rows) < MaxRows
  /\ metadata_rows' = Append(metadata_rows, EmptyRow)
  /\ UNCHANGED <<metadata, chunking_config, import_config, tpc>>
  /\ AppUnchanged

\* lines 643-664: Upload File clicked; the handler builds the metadata dict
\* and passes the chunking dict of the two number inputs.
BuildMetadata ==
  /\ InTab2 /\ tpc = "draft"
  /\ metadata' = build_metadata(metadata_rows)
  /\ chunking_config' \in WidgetPolicies
  /\ tpc' = "built"
  /\ UNCHANGED <<metadata_rows, import_config>>
  /\ AppUnchanged

\* line 244: upload_file_to_store called with typed values and with its
\* default chunking_config=None, as a caller other than the handler may.
CallUpload ==
  /\ InTab2 /\ tpc = "draft"
  /\ metadata_rows = <<EmptyRow>>
  /\ metadata' \in CallerDicts
  /\ chunking_config' \in ChunkingArgs
  /\ tpc' = "called"
  /\ UNCHANGED <<metadata_rows, import_config>>
  /\ AppUnchanged

\* lines 273-297: the config argument of import_file
SendImport ==
  /\ InTab2 /\ tpc \in {"built", "called"}
  /\ import_config' = config_arg(make_import_config(metadata, chunking_config))
  /\ tpc' = "sent"
  /\ UNCHANGED <<metadata_rows, metadata, chunking_config>>
  /\ AppUnchanged

\* upload_file_to_store has returned; the draft rows stay in the session.
UploadReturns ==
  /\ InTab2 /\ tpc = "sent"
  /\ metadata' = <<>>
  /\ chunking_config' = NoChunking
  /\ import_config' = NoConfig
  /\ tpc' = "draft"
  /\ UNCHANGED metadata_rows
  /\ AppUnchanged

\* A session in tab 2: a key has validated and a store is selected.
InitTags ==
  /\ client = "k1"
  /\ api_key_valid = TRUE
  /\ selected_store = "fileSearchStores/a"
  /\ stores_list = <<"fileSearchStores/a">>
  /\ chat_history = <<>>
  /\ pc = "idle"
  /\ api_key = ""
  /\ clicked = "none"
  /\ new_store_name = ""
  /\ uploaded_file = NoFile
  /\ user_query = None
  /\ file = None
  /\ result = None
  /\ final_status = None
  /\ timeout = 0
  /\ elapsed = 0
  /\ obs = <<>>
  /\ checkTime = 0
  /\ stage = "NotStarted"
  /\ calls = NoCalls
  /\ invoked = NoCalls
  /\ ret = NoRet
  /\ fault = None
  /\ metadata_rows = <<EmptyRow>>
  /\ metadata = <<>>
  /\ chunking_config = NoChunking
  /\ import_config = NoConfig
  /\ tpc = "draft"

NextTags ==
  \/ EditKey
  \/ EditValue
  \/ DeleteRow
  \/ AddRow
  \/ BuildMetadata
  \/ CallUpload
  \/ SendImport
  \/ UploadReturns

SpecTags == InitTags /\ [][NextTags]_vars

\* ================================================================ claims
Terminal == {"ACTIVE", "FAILED"}
Issued(o) == calls'[o] > calls[o]

\* C1 (as stated): when import_file raises after files.upload succeeded, the
\* attempt ends in LinkFailed, the result handed to the caller is still the
\* file reference returned by the upload, and no status check is made.
C1_LinkFaultKeepsFileRef ==
  stage = "LinkFailed" =>
    /\ file \in FileRefs
    /\ result = file
    /\ calls["files_get"] = 0

\* C1 (amended): when import_file raises after files.upload succeeded, the
\* attempt ends in LinkFailed, upload_file_to_store returns None although the
\* upload returned a file reference, and no status check is made.
C1_LinkFaultReturnsNone ==
  stage = "LinkFailed" =>
    /\ file \in FileRefs
    /\ result = None
    /\ final_status = None
    /\ calls["files_get"] = 0
    /\ pc # "poll"

C1_Witness ==
  /\ stage = "LinkFailed"
  /\ file \in FileRefs
  /\ calls["import_file"] = 1
  /\ pc = "t3_chat"

\* C2 (as stated): a fault of files.get does not end the polling loop, so
\* poll_file_status returns only ACTIVE, FAILED or TIMEOUT.
C2_PollFaultContinues ==
  /\ final_status \in {None, "ACTIVE", "FAILED", "TIMEOUT"}
  /\ \A i \in 1..Len(obs) : obs[i] = "fault" => pc = "poll"

\* C2 (amended): a fault of files.get ends the polling loop at once:
\* poll_file_status returns an ERROR value with no further status check, so
\* it returns only ACTIVE, FAILED, TIMEOUT or ERROR.
C2_PollFaultEndsLoop ==
  /\ final_status \in {None, "ACTIVE", "FAILED", "TIMEOUT", "ERROR"}
  /\ \A i \in 1..Len(obs) :
       obs[i] = "fault" =>
         /\ i = Len(obs)
         /\ calls["files_get"] = i
         /\ final_status = "ERROR"
         /\ pc # "poll"
  /\ (pc = "status" /\ final_status = "ERROR") =>
       Len(obs) > 0 /\ obs[Len(obs)] = "fault"

C2_Witness ==
  /\ final_status = "ERROR"
  /\ obs = <<"PROCESSING", "fault">>
  /\ elapsed < timeout
  /\ pc = "status"

\* C3: when files.upload raises, the attempt ends in UploadFailed with no
\* result, and neither import_file nor files.get is called for that attempt.
C3_UploadFaultNoLinkNoPoll ==
  stage = "UploadFailed" =>
    /\ result = None
    /\ file = None
    /\ calls["upload"] = 1
    /\ calls["import_file"] = 0
    /\ calls["files_get"] = 0
    /\ pc \notin {"link", "poll"}

C3_Witness ==
  /\ stage = "UploadFailed"
  /\ calls["upload"] = 1
  /\ pc = "t3_chat"

\* C4: polling stops at the first terminal state observed: a terminal
\* observation is the last one, after n non-terminal observations exactly
\* n+1 status checks were made, and poll_file_status returned that state.
C4_StopsAtFirstTerminal ==
  /\ \A i \in 1..Len(obs) :
       obs[i] \in Terminal =>
         /\ i = Len(obs)
         /\ \A j \in 1..(i - 1) : obs[j] \notin Terminal
         /\ calls["files_get"] = i
         /\ final_status = obs[i]
         /\ pc # "poll"
  /\ (pc = "status" /\ final_status \in Terminal) =>
       Len(obs) > 0 /\ obs[Len(obs)] = final_status

C4_Witness ==
  /\ final_status = "ACTIVE"
  /\ obs = <<"PROCESSING", "PROCESSING", "ACTIVE">>
  /\ calls["files_get"] = 3
  /\ elapsed < timeout
  /\ pc = "status"

\* C5: with a deadline of D >= 0 seconds, the 2-second interval and status
\* checks that take no time, poll_file_status returns TIMEOUT (pc = "status"
\* is the state at its return) at an elapsed time t with D <= t <= D + 2.
C5_TimeoutWindow ==
  (pc = "status" /\ final_status = "TIMEOUT" /\ checkTime = 0 /\ timeout >= 0) =>
    /\ timeout <= elapsed
    /\ elapsed <= timeout + PollInterval
    /\ \A i \in 1..Len(obs) : obs[i] \notin Terminal

C5_Witness ==
  /\ pc = "status"
  /\ final_status = "TIMEOUT"
  /\ checkTime = 0
  /\ timeout = 5
  /\ elapsed = 6
  /\ Len(obs) = 3

\* C6: one attempt makes at most one upload call and at most one link call;
\* the link call is issued only after the upload returned a file, and every
\* status check only after the link returned.
C6_StrictOrder ==
  [][ /\ calls'["upload"] <= 1
      /\ calls'["import_file"] <= 1
      /\ Issued("upload") => calls["import_file"] = 0 /\ calls["files_get"] = 0
      /\ Issued("import_file") =>
           /\ calls["upload"] = 1
           /\ file \in FileRefs
           /\ stage = "Linking"
           /\ calls["files_get"] = 0
      /\ Issued("files_get") =>
           /\ calls["import_file"] = 1
           /\ result \in FileRefs
           /\ stage = "Polling" ]_vars

C6_Witness ==
  /\ calls["upload"] = 1
  /\ calls["import_file"] = 1
  /\ calls["files_get"] = 2
  /\ final_status = "FAILED"

\* C7: a file above the 25 MB ceiling is rejected before any network call:
\* no upload, link or status call is issued for it.
C7_OversizeRejected ==
  uploaded_file.size > 25 =>
    /\ calls["upload"] = 0
    /\ calls["import_file"] = 0
    /\ calls["files_get"] = 0

\* C8: without a validated credential no collection, file, ingestion or
\* generation call is issued, and the credential becomes valid again only in
\* a step where initialize_client succeeds.
C8_NoCallWithoutCredential ==
  [][ /\ \A o \in Ops \ {"models_list"} :
           Issued(o) => api_key_valid /\ client # None
      /\ (~(api_key_valid /\ client # None) /\ api_key_valid' /\ client' # None) =>
           /\ Issued("models_list")
           /\ fault' = None
           /\ client' = api_key
      /\ (pc' \notin {"idle", "sidebar"}) =>
           api_key_valid' /\ client' # None ]_vars

C8_Witness ==
  /\ fault = "models_list"
  /\ ~api_key_valid
  /\ client = None
  /\ selected_store # None
  /\ pc = "idle"

\* C9: each wrapper makes one request per call and, when the request faults,
\* returns its sentinel; no fault reaches the top level of the script.
Sentinel(o) ==
  CASE o = "list_stores" -> <<>>
    [] o = "create_store" -> None
    [] o = "delete_store" -> FALSE
    [] o = "list_files" -> <<>>
    [] o = "generate" -> [text |-> ErrorText, citations |-> <<>>]

C9_WrappersReturnSentinel ==
  /\ pc # "crashed"
  /\ \A o \in Wrappers : calls[o] = invoked[o]
  /\ fault \in Wrappers => ret.op = fault /\ ret[fault] = Sentinel(fault)

C9_Witness ==
  /\ fault = "generate"
  /\ ret.op = "generate"
  /\ ret.generate.text = ErrorText
  /\ Len(chat_history) = 2
  /\ chat_history[2].content = ErrorText

\* C10 (as stated): after every list_stores call, stores_list equals the
\* value the call returned (the fresh listing, or the empty list on fault).
C10_ListReplacesView ==
  [][ Issued("list_stores") => stores_list' = ret'.list_stores ]_vars

\* C10 (amended): a list_stores call that succeeds replaces stores_list by
\* exactly the listing it returns; a call that faults returns the empty list
\* and leaves stores_list as it was.
C10_ListReplacesViewOnSuccess ==
  [][ Issued("list_stores") =>
        /\ ret'.op = "list_stores"
        /\ IF fault' = None
             THEN stores_list' = ret'.list_stores
             ELSE ret'.list_stores = <<>> /\ stores_list' = stores_list ]_vars

C10_Witness ==
  /\ fault = "list_stores"
  /\ ret.op = "list_stores"
  /\ ret.list_stores = <<>>
  /\ stores_list # <<>>

\* C14: the chat transcript is append-only: every step other than Clear Chat
\* History leaves the previous transcript as a prefix of the new one, and
\* Clear Chat History makes it empty.
IsPrefix(s, t) == Len(s) <= Len(t) /\ \A i \in 1..Len(s) : s[i] = t[i]
ClearStep == pc = "t3_chat" /\ clicked = "clear" /\ selected_store # None

C14_TranscriptAppendOnly ==
  [][ IF ClearStep
        THEN chat_history' = <<>>
        ELSE IsPrefix(chat_history, chat_history') ]_vars

C14_Witness ==
  /\ Len(chat_history) = 2
  /\ chat_history[1].role = "user"
  /\ chat_history[2].role = "assistant"
  /\ pc = "t3_chat"
  /\ clicked = "clear"

\* C16: a successful delete_store leaves selected_store None and stores_list
\* empty before the next run, a failed one leaves both unchanged; afterwards
\* a store is selected only out of a listing that list_stores returned, and
\* upload, file listing and generation calls (whose store argument is
\* selected_store) are issued only with a store selected.
Range(s) == {s[i] : i \in 1..Len(s)}

C16_DeleteClearsSelection ==
  [][ /\ (Issued("delete_store") /\ fault' = None) =>
           /\ selected_store' = None
           /\ stores_list' = <<>>
           /\ pc' = "sidebar"
      /\ (Issued("delete_store") /\ fault' # None) =>
           UNCHANGED <<selected_store, stores_list>>
      /\ (selected_store' # selected_store /\ selected_store' # None) =>
           selected_store' \in Range(stores_list)
      /\ (stores_list' # stores_list /\ stores_list' # <<>>) =>
           /\ Issued("list_stores")
           /\ fault' = None
           /\ stores_list' = ret'.list_stores
      /\ (Issued("upload") \/ Issued("list_files") \/ Issued("generate")) =>
           selected_store # None ]_vars

C16_Witness ==
  /\ calls["delete_store"] = 1
  /\ fault = None
  /\ ret.op = "delete_store"
  /\ selected_store = None
  /\ stores_list = <<>>
  /\ pc = "sidebar"

\* C17: once a credential has validated, a run with any non-empty key (the
\* same or a different one) never calls initialize_client and leaves client
\* and api_key_valid unchanged; a validated client is given up only by a run
\* whose key field is empty.
Validated == api_key_valid /\ client # None

C17_ValidatedKeyIsKept ==
  [][ /\ (Validated /\ pc = "sidebar" /\ api_key # "") =>
           /\ UNCHANGED <<client, api_key_valid>>
           /\ ~Issued("models_list")
      /\ Issued("models_list") => ~Validated
      /\ (Validated /\ ~Validated') =>
           /\ pc = "sidebar"
           /\ api_key = ""
           /\ client' = None
           /\ api_key_valid' = FALSE
      /\ (Validated /\ Validated') => client' = client ]_vars

C17_Witness ==
  /\ Validated
  /\ client = "k1"
  /\ api_key = "k2"
  /\ pc = "t1_refresh"
  /\ calls["models_list"] = 0

\* C15: poll_file_status terminates for every timeout and every sequence of
\* status-check outcomes: from its entry it eventually returns, the value
\* returned is ACTIVE, FAILED, TIMEOUT or an ERROR value, and with
\* timeout <= 0 it returns TIMEOUT after zero status checks.
C15_PollTerminates ==
  /\ (pc = "poll") ~> (pc = "status")
  /\ [](pc = "status" =>
          final_status \in {"ACTIVE", "FAILED", "TIMEOUT", "ERROR"})
  /\ []((pc \in {"poll", "status"} /\ timeout <= 0) =>
          /\ obs = <<>>
          /\ calls["files_get"] = 0
          /\ pc = "status" => final_status = "TIMEOUT")

C15_Witness ==
  /\ pc = "status"
  /\ timeout < 0
  /\ final_status = "TIMEOUT"
  /\ calls["import_file"] = 1
  /\ calls["files_get"] = 0

\* C11: the tag mapping built from the draft rows has unique keys, the value
\* of a key is that of the last row carrying the key with a value, and every
\* row whose key or value is empty (or blank) is left out wherever it stands.
Blank(t) == \A i \in 1..Len(t) : t[i] = Space
Counts(row) == ~Blank(row.key) /\ ~Blank(row.value)
RowsOf(k) == {r \in 1..Len(metadata_rows) :
                Counts(metadata_rows[r]) /\ strip(metadata_rows[r].key) = k}
Last(S) == CHOOSE r \in S : \A q \in S : q <= r

C11_TagMapping ==
  tpc = "built" =>
    /\ \A i, j \in 1..Len(metadata) :
         metadata[i].key = metadata[j].key => i = j
    /\ \A i \in 1..Len(metadata) :
         /\ RowsOf(metadata[i].key) # {}
         /\ metadata[i].value.val =
              strip(metadata_rows[Last(RowsOf(metadata[i].key))].value)
    /\ \A r \in 1..Len(metadata_rows) :
         IF Counts(metadata_rows[r])
           THEN dict_has(metadata, strip(metadata_rows[r].key))
           ELSE metadata = build_metadata(
                  [q \in 1..(Len(metadata_rows) - 1) |->
                     IF q < r THEN metadata_rows[q] ELSE metadata_rows[q + 1]])

C11_Witness ==
  /\ tpc = "built"
  /\ Len(metadata_rows) = 3
  /\ metadata_rows[1] = [key |-> <<"a">>, value |-> <<"x">>]
  /\ metadata_rows[2] = [key |-> <<Space, "a">>, value |-> <<"y", Space>>]
  /\ metadata_rows[3] = [key |-> <<"a">>, value |-> <<>>]
  /\ metadata = <<[key |-> <<"a">>, value |-> [type |-> "str", val |-> <<"y">>]]>>

\* C12: the tag list of a linking request has one entry per key of the tag
\* mapping, in the mapping's order; an entry carries numeric_value alone if
\* the value is a number, and otherwise string_value alone, equal to the
\* value as a string.
Numeric(v) == v.type = "int" \/ v.type = "float"
TagList == import_config.dict["custom_metadata"]

C12_TagList ==
  (tpc = "sent" /\ metadata # <<>>) =>
    /\ ~import_config.isNone
    /\ "custom_metadata" \in DOMAIN import_config.dict
    /\ Len(TagList) = Len(metadata)
    /\ \A i \in 1..Len(metadata) :
         /\ TagList[i].key = metadata[i].key
         /\ IF Numeric(metadata[i].value)
              THEN /\ DOMAIN TagList[i] = {"key", "numeric_value"}
                   /\ TagList[i].numeric_value = metadata[i].value.val
              ELSE /\ DOMAIN TagList[i] = {"key", "string_value"}
                   /\ TagList[i].string_value = py_str(metadata[i].value)

C12_Witness ==
  /\ tpc = "sent"
  /\ Len(metadata) = 2
  /\ metadata[1].key = <<"y">>
  /\ metadata[1].value.type = "int"
  /\ metadata[2].key = <<"d">>
  /\ metadata[2].value.type = "NoneType"
  /\ TagList[1] = [key |-> <<"y">>, numeric_value |-> <<"2", "0", "2", "4">>]
  /\ TagList[2] = [key |-> <<"d">>, string_value |-> <<"N", "o", "n", "e">>]

\* C13: the linking request carries no configuration object exactly when
\* neither a tag nor a chunking policy was supplied; otherwise the object has
\* the custom_metadata key iff tags were supplied and the chunking_config key
\* iff a policy was supplied, the policy passed on as it is.
TagsSupplied == Len(metadata) > 0
PolicySupplied == ~chunking_config.isNone /\ chunking_config.dict # EmptyDict

C13_ConfigShape ==
  tpc = "sent" =>
    /\ import_config.isNone <=> (~TagsSupplied /\ ~PolicySupplied)
    /\ ~import_config.isNone =>
         /\ DOMAIN import_config.dict =
              (IF TagsSupplied THEN {"custom_metadata"} ELSE {})
              \cup (IF PolicySupplied THEN {"chunking_config"} ELSE {})
         /\ PolicySupplied =>
              import_config.dict["chunking_config"] = chunking_config.dict

C13_Witness ==
  /\ tpc = "sent"
  /\ metadata = <<>>
  /\ chunking_config = NoChunking
  /\ import_config.isNone

====
